---- MODULE Spec2Model ----
(***************************************************************************)
(* A model of the population store, the contact graph and the transmission *)
(* tree of covasim/base.py (BasePeople, Contacts, Layer, TransTree).       *)
(*                                                                         *)
(* Arrays are sequences of integers (1-based here, 0-based in the code:    *)
(* person index p lives at position p+1).  Booleans are stored as 0/1, as  *)
(* numpy stores them.  An operation that raises leaves its exception name  *)
(* in last.err; "none" means it returned normally.                         *)
(***************************************************************************)
EXTENDS Integers, Sequences, FiniteSets, TLC

\* ------------------------------------------------------------------ bounds
\* Largest population size / array length explored.
MaxSize == 2
\* Largest size of the second operand of __add__ and of the list of people
\* handed to from_people.
MaxOther == 1
\* Largest person index in the edge tables handed to remove_duplicates.
MaxPerson == 2
\* Largest number of rows of an edge table handed to remove_duplicates.
MaxRows == 3
\* How many times in a row remove_duplicates is applied to its own output.
MaxApply == 2
\* Largest number of edges of a batch handed to add_contacts.
MaxBatch == 1
\* Largest number of edges the graph may hold, all layers together.
MaxEdges == 2
\* Largest integer (in absolute value) used as a key of Contacts.__getitem__.
MaxIndex == 3

\* The most calls made on the result of a combine.
MaxCalls == 2

VARIABLES
    pop_size,   \* BasePeople.pop_size
    arrays,     \* BasePeople.__dict__ restricted to the state keys: key -> array
    transtree,  \* BasePeople.transtree: [sources, targets]
    contacts,   \* BasePeople.contacts: the layers, in insertion order
    df,         \* the edge table (dataframe) the caller of remove_duplicates holds
    pre,        \* the store (graph, table) as it was when the recorded call was made
    last,       \* the recorded call: its name, arguments, exception, result
    lock,       \* BasePeople._lock
    heap,       \* the objects the stores of a combine refer to: object id -> contents
    stores      \* the stores of a combine: name -> the references the store holds

vars == <<pop_size, arrays, transtree, contacts, df, pre, last, lock, heap, stores>>

\* ------------------------------------------------------------------ schema
\* self.keys(): the state keys, in order (keylist.all_states).
Keys == <<"uid", "susceptible">>

KeySet == {Keys[i] : i \in 1..Len(Keys)}

\* The position of a key in self.keys().
KeyIdx(k) == CHOOSE i \in 1..Len(Keys) : Keys[i] = k

\* A name that is not a state key (people['foo'] raises AttributeError).
UnknownKey == "foo"

\* self._dtypes: the element type of each array.
Dtypes == [k \in KeySet |-> IF k = "uid" THEN "int" ELSE "bool"]

\* np.array(value, dtype=...) element by element: a bool array keeps only
\* whether the value is nonzero; an integer array keeps the integer.
CoerceVal(dtype, v) == IF dtype = "bool" THEN (IF v # 0 THEN 1 ELSE 0) ELSE v

Coerce(key, value) == [i \in 1..Len(value) |-> CoerceVal(Dtypes[key], value[i])]

\* ------------------------------------------------------------------ helpers
\* The element values offered as inputs: 0 is falsy, 2 is truthy and is not
\* its own image as a bool.
Vals == {0, 2}

\* All sequences over S of length at most n.
SeqsUpTo(S, n) == UNION {[1..m -> S] : m \in 0..n}

\* np.arange(n)
Arange(n) == [i \in 1..n |-> i - 1]

\* A resize that repeats the array to fill the new length, as np.resize does.
NdResizeRepeat(a, n) ==
    [i \in 1..n |-> IF i <= Len(a) THEN a[i]
                    ELSE IF Len(a) = 0 THEN 0 ELSE a[((i - 1) % Len(a)) + 1]]

\* ndarray.resize(n, refcheck=False): in place, truncating or zero-filling.
NdResize(a, n) == [i \in 1..n |-> IF i <= Len(a) THEN a[i] ELSE 0]

\* ndarray.nonzero()[0]: the (0-based) indices of the nonzero entries, ascending.
Nonzero(a) == SelectSeq(Arange(Len(a)), LAMBDA i : a[i + 1] # 0)

\* numpy's ~ on an integer array: bitwise NOT of every element (two's complement).
Invert(a) == [i \in 1..Len(a) |-> -a[i] - 1]

\* The call record when no call is recorded (the caller has looked at the result).
NoCall ==
    [op |-> "none", key |-> "", names |-> {}, die |-> TRUE, size |-> 0,
     value |-> <<>>, other |-> <<>>, err |-> "none", ret |-> <<>>]

Store == [pop_size |-> pop_size, arrays |-> arrays, transtree |-> transtree]

\* No call is in progress: the store was just constructed, or the last call
\* has returned.
Idle == last.op \in {"init", "none"}

\* keys=None / pop_size=None in a call.
NoneNames == {"None"}

NoneSize == -1

\* ------------------------------------------------------------------ Layer, Contacts
\* pars['beta_layer']: the configured layers and their transmission weights,
\* in order.
BetaLayer == <<[name |-> "h", beta |-> 3], [name |-> "c", beta |-> 1]>>

\* BasePeople.contact_keys(): list(pars['beta_layer'].keys())
ContactKeys == [i \in 1..Len(BetaLayer) |-> BetaLayer[i].name]

\* The keys of pars['contacts'].
ParsContacts == {BetaLayer[i].name : i \in 1..Len(BetaLayer)}

\* self.layer_info.keys(): the columns of a layer, in order.
LayerInfo == <<"p1", "p2", "beta", "layer">>

\* Layer.__init__: an empty array per column.
EmptyLayer == [p1 |-> <<>>, p2 |-> <<>>, beta |-> <<>>, layer |-> <<>>]

\* key in contacts (dict.__contains__)
HasKey(c, name) == \E i \in 1..Len(c) : c[i].name = name

\* dict.__getitem__ for a key that is present.
LayerOf(c, name) == c[CHOOSE i \in 1..Len(c) : c[i].name = name].layer

\* A key handed to Contacts.__getitem__: a string or an integer.
StrKey(name) == [kind |-> "str", s |-> name, i |-> 0]

IntKey(n) == [kind |-> "int", s |-> "", i |-> n]

\* Contacts.__getitem__ that takes positions from 0 up only.
ContactsGetItemFromZero(c, key) ==
    IF key.kind = "str" /\ HasKey(c, key.s)
    THEN [err |-> "none", layer |-> LayerOf(c, key.s)]
    ELSE IF key.kind = "int" /\ 0 <= key.i /\ key.i < Len(c)
    THEN [err |-> "none", layer |-> c[key.i + 1].layer]
    ELSE [err |-> "KeyError", layer |-> EmptyLayer]

\* Contacts.__getitem__(key): [err, layer].  The dict lookup first; on KeyError
\* list(self.keys())[key], which for an integer takes Python's positions
\* -len..len-1 and for anything else raises, and then the original KeyError.
ContactsGetItem(c, key) ==
    IF key.kind = "str" /\ HasKey(c, key.s)
    THEN [err |-> "none", layer |-> LayerOf(c, key.s)]
    ELSE IF key.kind = "int" /\ -Len(c) <= key.i /\ key.i < Len(c)
    THEN [err |-> "none",
          layer |-> c[IF key.i >= 0 THEN key.i + 1 ELSE Len(c) + key.i + 1].layer]
    ELSE [err |-> "KeyError", layer |-> EmptyLayer]

\* BasePeople.init_contacts(): an empty layer per contact key.
InitContacts == [i \in 1..Len(ContactKeys) |-> [name |-> ContactKeys[i], layer |-> EmptyLayer]]

\* ------------------------------------------------------------------ TransTree
\* TransTree.__init__(pop_size=n): sources = [None]*n, targets = [[] for p in range(n)].
TransTreeInit(n) ==
    [sources |-> [i \in 1..n |-> "None"], targets |-> [i \in 1..n |-> <<>>]]

\* ------------------------------------------------------------------ BasePeople
\* The arrays a freshly initialized store holds: one per state key, pop_size long.
InitArrays(n) == [k \in KeySet |-> [i \in 1..n |-> 0]]

\* The lock of an initialized store: initialization sets it once the state
\* arrays are allocated.
Locked == TRUE

\* BasePeople.__init__ (followed by the allocation of the state arrays).
Init ==
    \E n \in 0..MaxSize :
        /\ pop_size = n
        /\ arrays = InitArrays(n)
        /\ transtree = TransTreeInit(n)
        /\ pre = [pop_size |-> n, arrays |-> InitArrays(n), transtree |-> TransTreeInit(n)]
        /\ contacts = InitContacts
        /\ last = [NoCall EXCEPT !.op = "init"]
        /\ df = <<>>
        /\ lock = Locked
        /\ heap = <<>>
        /\ stores = <<>>

\* set without the length check.
SetResultUnchecked(arrs, key, value, die) ==
    IF key \notin KeySet
    THEN [err |-> "AttributeError", arrays |-> arrs]
    ELSE [err |-> "none", arrays |-> [arrs EXCEPT ![key] = Coerce(key, value)]]

\* BasePeople.set(key, value, die) on the arrays `arrs`: [err, arrays].
SetResult(arrs, key, value, die) ==
    IF key \notin DOMAIN arrs
    THEN [err |-> "AttributeError", arrays |-> arrs]     \* current = self[key] raises
    ELSE IF key \notin KeySet
    THEN [err |-> "KeyError", arrays |-> arrs]           \* self._dtypes[key] raises
    ELSE LET current == arrs[key]
             coerced == Coerce(key, value)
         IN  IF die /\ Len(coerced) # Len(current)
             THEN [err |-> "IndexError", arrays |-> arrs]
             ELSE [err |-> "none", arrays |-> [arrs EXCEPT ![key] = coerced]]

Set(key, value, die) ==
    LET r == SetResult(arrays, key, value, die)
    IN  /\ Idle
        /\ pre' = Store
        /\ arrays' = r.arrays
        /\ last' = [NoCall EXCEPT !.op = "set", !.key = key, !.value = value,
                                  !.die = die, !.err = r.err]
        /\ UNCHANGED <<pop_size, transtree, contacts, df, lock, heap, stores>>

\* resize that resizes the arrays and leaves self.pop_size as it was.
ResizeResultStaleSize(ps, arrs, size, names) ==
    LET newsize == IF size = NoneSize THEN ps ELSE size
        keys == IF names = NoneNames THEN KeySet ELSE names
    IN  [pop_size |-> ps,
         arrays |-> [k \in KeySet |-> IF k \in keys THEN NdResize(arrs[k], newsize)
                                                    ELSE arrs[k]]]

\* BasePeople.resize(pop_size, keys) on the store (ps, arrs): [pop_size, arrays].
ResizeResult(ps, arrs, size, names) ==
    LET newsize == IF size = NoneSize THEN ps ELSE size
        keys == IF names = NoneNames THEN KeySet ELSE names
    IN  [pop_size |-> newsize,
         arrays |-> [k \in KeySet |-> IF k \in keys THEN NdResize(arrs[k], newsize)
                                                    ELSE arrs[k]]]

Resize(size, names) ==
    LET r == ResizeResult(pop_size, arrays, size, names)
    IN  /\ Idle
        /\ pre' = Store
        /\ pop_size' = r.pop_size
        /\ arrays' = r.arrays
        /\ last' = [NoCall EXCEPT !.op = "resize", !.size = size, !.names = names]
        /\ UNCHANGED <<transtree, contacts, df, lock, heap, stores>>

\* validate that stops after resizing the first mismatched key.
ValidateResultFirstOnly(ps, arrs, die) ==
    LET bad == {k \in KeySet : Len(arrs[k]) # ps}
        first == CHOOSE k \in bad : \A j \in bad : KeyIdx(k) <= KeyIdx(j)
    IN  IF bad = {} THEN [err |-> "none", arrays |-> arrs]
        ELSE IF die THEN [err |-> "IndexError", arrays |-> arrs]
        ELSE [err |-> "none",
              arrays |-> [arrs EXCEPT ![first] = NdResize(arrs[first], ps)]]

\* BasePeople.validate(die) on the store (ps, arrs): [err, arrays].  In strict
\* mode the first mismatched key raises, before anything was changed; otherwise
\* every mismatched key is resized by self.resize(keys=key).
ValidateResult(ps, arrs, die) ==
    LET bad == {k \in KeySet : Len(arrs[k]) # ps}
    IN  IF bad = {} THEN [err |-> "none", arrays |-> arrs]
        ELSE IF die THEN [err |-> "IndexError", arrays |-> arrs]
        ELSE [err |-> "none",
              arrays |-> [k \in KeySet |->
                            IF k \in bad
                            THEN ResizeResult(ps, arrs, NoneSize, {k}).arrays[k]
                            ELSE arrs[k]]]

Validate(die) ==
    LET r == ValidateResult(pop_size, arrays, die)
    IN  /\ Idle
        /\ pre' = Store
        /\ arrays' = r.arrays
        /\ last' = [NoCall EXCEPT !.op = "validate", !.die = die, !.err = r.err]
        /\ UNCHANGED <<pop_size, transtree, contacts, df, lock, heap, stores>>

\* The stores offered as the second operand of __add__: initialized with a
\* size n and filled by set(key, value) with values of that length.
OtherStores ==
    UNION {{[pop_size |-> n, arrays |-> [k \in KeySet |-> Coerce(k, g[k])]] :
               g \in [KeySet -> [1..n -> Vals]]} : n \in 0..MaxOther}

\* __add__ that puts people2's values in front of self's.
AddResultSwapped(st, people2) ==
    LET concat == [k \in KeySet |-> Coerce(k, people2.arrays[k] \o st.arrays[k])]
        newsize == st.pop_size + people2.pop_size
    IN  IF \E k \in KeySet : Len(concat[k]) # newsize
        THEN [err |-> "IndexError", store |-> st]
        ELSE [err |-> "none",
              store |-> [pop_size |-> newsize,
                         arrays |-> [concat EXCEPT !["uid"] = Arange(newsize)],
                         transtree |-> st.transtree]]

\* BasePeople.__add__(people2) on the store st: [err, store].  The result is a
\* deep copy of st with every array replaced by the concatenation, the sizes
\* summed, a strict validate, and fresh uids.
AddResult(st, people2) ==
    LET concat == [k \in KeySet |->
                     SetResult(st.arrays, k, st.arrays[k] \o people2.arrays[k], FALSE).arrays[k]]
        newsize == st.pop_size + people2.pop_size
        checked == ValidateResult(newsize, concat, TRUE)
        uids == SetResult(concat, "uid", Arange(newsize), TRUE)
    IN  IF checked.err # "none" THEN [err |-> checked.err, store |-> st]
        ELSE IF uids.err # "none" THEN [err |-> uids.err, store |-> st]
        ELSE [err |-> "none",
              store |-> [pop_size |-> newsize, arrays |-> uids.arrays,
                         transtree |-> st.transtree]]

\* people = people + people2: the caller goes on with the combined store.
Add(people2) ==
    LET r == AddResult(Store, people2)
    IN  /\ Idle
        /\ pop_size + people2.pop_size <= MaxSize
        /\ \A k \in KeySet : Len(arrays[k]) + Len(people2.arrays[k]) <= MaxSize
        /\ pre' = Store
        /\ pop_size' = r.store.pop_size
        /\ arrays' = r.store.arrays
        /\ transtree' = r.store.transtree
        /\ last' = [NoCall EXCEPT !.op = "add", !.other = people2, !.err = r.err]
        /\ UNCHANGED <<contacts, df, lock, heap, stores>>

\* The lists of people offered to from_people: each person carries one value
\* per state key.
PeopleLists == SeqsUpTo([KeySet -> Vals], MaxOther)

\* BasePeople.from_people(people, resize) on the store (ps, arrs):
\* [err, pop_size, arrays].  The writes self[key][p] = ... run person by person
\* and key by key; the first one past the end of its array raises IndexError,
\* and the writes made before it stay.
FromPeopleResult(ps, arrs, people, resize) ==
    LET n == Len(people)
        r == IF resize THEN ResizeResult(ps, arrs, n, NoneNames)
                       ELSE [pop_size |-> ps, arrays |-> arrs]
        fails == {w \in (1..n) \X (1..Len(Keys)) : w[1] > Len(r.arrays[Keys[w[2]]])}
        Before(a, b) == a[1] < b[1] \/ (a[1] = b[1] /\ a[2] < b[2])
        first == CHOOSE w \in fails : \A v \in fails : v = w \/ Before(w, v)
        Written(p, k) == p <= n /\ (fails = {} \/ Before(<<p, KeyIdx(k)>>, first))
    IN  [err |-> IF fails = {} THEN "none" ELSE "IndexError",
         pop_size |-> r.pop_size,
         arrays |-> [k \in KeySet |->
                       [p \in 1..Len(r.arrays[k]) |->
                          IF Written(p, k) THEN CoerceVal(Dtypes[k], people[p][k])
                                           ELSE r.arrays[k][p]]]]

FromPeople(people, resize) ==
    LET r == FromPeopleResult(pop_size, arrays, people, resize)
    IN  /\ Idle
        /\ pre' = Store
        /\ pop_size' = r.pop_size
        /\ arrays' = r.arrays
        /\ last' = [NoCall EXCEPT !.op = "from_people", !.other = people,
                                  !.die = resize, !.err = r.err]
        /\ UNCHANGED <<transtree, contacts, df, lock, heap, stores>>

\* BasePeople.true(key): self[key].nonzero()[0]
TrueResult(arrs, key) == Nonzero(arrs[key])

\* BasePeople.false(key): ~self[key].nonzero()[0]; the ~ applies to the index
\* array that nonzero() returned.
FalseResult(arrs, key) == Invert(Nonzero(arrs[key]))

True(key) ==
    /\ Idle
    /\ pre' = Store
    /\ last' = [NoCall EXCEPT !.op = "true", !.key = key, !.ret = TrueResult(arrays, key)]
    /\ UNCHANGED <<pop_size, arrays, transtree, contacts, df, lock, heap, stores>>

False(key) ==
    /\ Idle
    /\ pre' = Store
    /\ last' = [NoCall EXCEPT !.op = "false", !.key = key, !.ret = FalseResult(arrays, key)]
    /\ UNCHANGED <<pop_size, arrays, transtree, contacts, df, lock, heap, stores>>

\* The call has returned and the caller goes on to its next call.
Return ==
    /\ ~Idle
    /\ last' = NoCall
    /\ pre' = Store
    /\ UNCHANGED <<pop_size, arrays, transtree, contacts, df, lock, heap, stores>>

Next ==
    \/ \E key \in KeySet, value \in SeqsUpTo(Vals, MaxSize), die \in BOOLEAN :
          Set(key, value, die)
    \/ \E die \in BOOLEAN : Set(UnknownKey, <<>>, die)
    \/ \E size \in (0..MaxSize) \cup {NoneSize}, names \in (SUBSET KeySet) \cup {NoneNames} :
          Resize(size, names)
    \/ \E die \in BOOLEAN : Validate(die)
    \/ \E people2 \in OtherStores : Add(people2)
    \/ \E people \in PeopleLists, resize \in BOOLEAN : FromPeople(people, resize)
    \/ \E key \in KeySet : True(key)
    \/ \E key \in KeySet : False(key)
    \/ Return

Spec == Init /\ [][Next]_vars

\* The store under resize and __add__ alone.
NextLedger ==
    \/ \E size \in (0..MaxSize) \cup {NoneSize}, names \in (SUBSET KeySet) \cup {NoneNames} :
          Resize(size, names)
    \/ \E people2 \in OtherStores : Add(people2)
    \/ Return

SpecLedger == Init /\ [][NextLedger]_vars

\* ------------------------------------------------------------------ the attribute lock
\* The names offered to the keyed writes: the state keys and one other name.
WriteKeys == KeySet \cup {UnknownKey}

\* __setitem__ that does not look at the lock.
SetItemResultUnlocked(lk, arrs, key, value) ==
    [err |-> "none",
     arrays |-> [k \in DOMAIN arrs \cup {key} |-> IF k = key THEN value ELSE arrs[k]]]

\* BasePeople.__setitem__(key, value) on the attributes arrs of a store whose
\* lock is lk: [err, arrays].
SetItemResult(lk, arrs, key, value) ==
    IF lk /\ key \notin DOMAIN arrs
    THEN [err |-> "AttributeError", arrays |-> arrs]
    ELSE [err |-> "none",
          arrays |-> [k \in DOMAIN arrs \cup {key} |-> IF k = key THEN value ELSE arrs[k]]]

\* people[key] = value
SetItem(key, value) ==
    LET r == SetItemResult(lock, arrays, key, value)
    IN  /\ Idle
        /\ pre' = Store
        /\ arrays' = r.arrays
        /\ last' = [NoCall EXCEPT !.op = "setitem", !.key = key, !.value = value,
                                  !.err = r.err]
        /\ UNCHANGED <<pop_size, transtree, contacts, df, lock, heap, stores>>

\* The initialization of the store after BasePeople.__init__: one zeroed array
\* of length pop_size per state key, and the lock.
Initialize ==
    /\ Idle
    /\ ~lock
    /\ pre' = Store
    /\ arrays' = [k \in DOMAIN arrays \cup KeySet |->
                     IF k \in KeySet THEN InitArrays(pop_size)[k] ELSE arrays[k]]
    /\ lock' = Locked
    /\ last' = [NoCall EXCEPT !.op = "initialize"]
    /\ UNCHANGED <<pop_size, transtree, contacts, df, heap, stores>>

\* BasePeople.__init__: no state array yet, the lock open.
InitLock ==
    \E n \in 0..MaxSize :
        /\ pop_size = n
        /\ arrays = <<>>
        /\ transtree = TransTreeInit(n)
        /\ pre = [pop_size |-> n, arrays |-> <<>>, transtree |-> TransTreeInit(n)]
        /\ contacts = InitContacts
        /\ last = [NoCall EXCEPT !.op = "init"]
        /\ df = <<>>
        /\ lock = FALSE
        /\ heap = <<>>
        /\ stores = <<>>

\* The values offered to the keyed writes: arrays of every length up to MaxSize.
WriteValues == SeqsUpTo({2}, MaxSize)

NextLock ==
    \/ \E key \in WriteKeys, value \in WriteValues : SetItem(key, value)
    \/ \E key \in WriteKeys, value \in WriteValues, die \in BOOLEAN : Set(key, value, die)
    \/ Initialize
    \/ Return

SpecLock == InitLock /\ [][NextLock]_vars

\* ------------------------------------------------------------------ remove_duplicates
\* The rows of t at the positions satisfying Keep, in their order in t.
FilterRows(t, Keep(_)) ==
    LET S == {i \in 1..Len(t) : Keep(i)}
        Rank(i) == Cardinality({j \in S : j <= i})
    IN  [r \in 1..Cardinality(S) |-> t[CHOOSE i \in S : Rank(i) = r]]

\* (p1, p2) of row a sorts before (p1, p2) of row b.
PairLess(a, b) == a.p1 < b.p1 \/ (a.p1 = b.p1 /\ a.p2 < b.p2)

\* df.sort_values(['p1', 'p2']): rows in ascending (p1, p2); rows with equal
\* (p1, p2) keep their order (pandas sorts several columns with a stable sort).
SortValues(t) ==
    LET Pos(i) == 1 + Cardinality({j \in 1..Len(t) :
                        PairLess(t[j], t[i]) \/ (~PairLess(t[i], t[j]) /\ j < i)})
    IN  [r \in 1..Len(t) |-> t[CHOOSE i \in 1..Len(t) : Pos(i) = r]]

\* df.drop_duplicates(['p1', 'p2']): the first row of every (p1, p2) is kept.
DropDuplicates(t) ==
    FilterRows(t, LAMBDA i : ~\E j \in 1..(i - 1) : t[j].p1 = t[i].p1 /\ t[j].p2 = t[i].p2)

Min2(a, b) == IF a <= b THEN a ELSE b

Max2(a, b) == IF a >= b THEN a ELSE b

\* remove_duplicates without the reassignment of p1 and p2 to the lower and
\* the higher endpoint.
RemoveDuplicatesUnordered(t) ==
    LET unique == DropDuplicates(SortValues(t))
    IN  FilterRows(unique, LAMBDA i : unique[i].p1 # unique[i].p2)

\* BasePeople.remove_duplicates(df): the table it returns.
RemoveDuplicatesResult(t) ==
    LET ordered == [i \in 1..Len(t) |->
                      [t[i] EXCEPT !.p1 = Min2(t[i].p1, t[i].p2),
                                   !.p2 = Max2(t[i].p1, t[i].p2)]]
        sorted == SortValues(ordered)
        unique == DropDuplicates(sorted)
    IN  FilterRows(unique, LAMBDA i : unique[i].p1 # unique[i].p2)

\* The edge tables handed to remove_duplicates: every row has its endpoints and
\* a tag standing for its other columns (here the position it was created at).
EdgeTables ==
    {[i \in 1..Len(ps) |-> [p1 |-> ps[i][1], p2 |-> ps[i][2], tag |-> i]] :
        ps \in SeqsUpTo((0..MaxPerson) \X (0..MaxPerson), MaxRows)}

InitDedup ==
    /\ pop_size = 0
    /\ arrays = InitArrays(0)
    /\ transtree = TransTreeInit(0)
    /\ contacts = InitContacts
    /\ df \in EdgeTables
    /\ pre = df
    /\ last = [NoCall EXCEPT !.op = "init"]
    /\ lock = Locked
    /\ heap = <<>>
    /\ stores = <<>>

\* df = remove_duplicates(df); last.size counts the applications so far.
RemoveDuplicates ==
    /\ last.size < MaxApply
    /\ pre' = df
    /\ df' = RemoveDuplicatesResult(df)
    /\ last' = [NoCall EXCEPT !.op = "remove_duplicates", !.size = last.size + 1]
    /\ UNCHANGED <<pop_size, arrays, transtree, contacts, lock, heap, stores>>

NextDedup == RemoveDuplicates

SpecDedup == InitDedup /\ [][NextDedup]_vars

\* ------------------------------------------------------------------ contacts of the store
\* x repeated n times: [x]*n
Rep(x, n) == [i \in 1..n |-> x]

RECURSIVE Concat(_)
\* The sequences of ss joined in order (list.extend over ss).
Concat(ss) == IF ss = <<>> THEN <<>> ELSE Head(ss) \o Concat(Tail(ss))

\* key=None / beta=None in a call of add_contacts.
NoneKey == "None"

NoneBeta == <<>>

\* An edge batch handed to the column loop of add_contacts (a Layer or a
\* dataframe): the names of the columns it has, and the columns.
Batch(has, p1, p2, beta, layer) ==
    [has |-> has, p1 |-> p1, p2 |-> p2, beta |-> beta, layer |-> layer]

ColIdx(col) == CHOOSE i \in 1..Len(LayerInfo) : LayerInfo[i] = col

\* BasePeople.make_edgelist(contacts): [err, batches].  contacts is a list with
\* one ordered dict per person, layer key -> list of neighbours.  The batches
\* are built in a fresh Contacts(): new_contacts[lkey]['p1'] = [] looks lkey up
\* in it.  The person loop appends to new_contacts[lkey], lkey being what the
\* loop over lkeys left behind: the last layer key.
MakeEdgelistResult(adj) ==
    IF Len(adj) = 0 THEN [err |-> "IndexError", batches |-> <<>>]      \* contacts[0]
    ELSE
    LET lkeys == [i \in 1..Len(adj[1]) |-> adj[1][i].key]
        entries == Concat([p \in 1..Len(adj) |->
                      [i \in 1..Len(adj[p]) |->
                          [p |-> p - 1, key |-> adj[p][i].key, nbrs |-> adj[p][i].nbrs]]])
        p1 == Concat([j \in 1..Len(entries) |-> Rep(entries[j].p, Len(entries[j].nbrs))])
        p2 == Concat([j \in 1..Len(entries) |-> entries[j].nbrs])
        layer == Concat([j \in 1..Len(entries) |-> Rep(entries[j].key, Len(entries[j].nbrs))])
    IN  IF Len(lkeys) > 0
        THEN LET lookup == ContactsGetItem(<<>>, StrKey(lkeys[1]))
             IN  IF lookup.err # "none" THEN [err |-> lookup.err, batches |-> <<>>]
                 ELSE [err |-> "none",
                       batches |-> [i \in 1..Len(lkeys) |->
                          [lkey |-> lkeys[i],
                           batch |-> IF i = Len(lkeys)
                                     THEN Batch({"p1", "p2", "beta", "layer"}, p1, p2, <<>>, layer)
                                     ELSE Batch({"p1", "p2", "beta", "layer"}, <<>>, <<>>, <<>>, <<>>)]]]
        ELSE IF Len(entries) > 0
             THEN [err |-> "UnboundLocalError", batches |-> <<>>]     \* lkey was never bound
             ELSE [err |-> "none", batches |-> <<>>]

\* The type dispatch of add_contacts: [err, batches].  A Contacts object is a
\* dict, so it ends in the dict branch like any mapping: one dataframe, under
\* key, whose columns are the keys of the mapping.
NormalizeContacts(input, key) ==
    IF input.kind = "Layer"
    THEN [err |-> "none", batches |-> <<[lkey |-> key, batch |-> input.batch]>>]
    ELSE IF input.kind = "dict"
    THEN IF \E a, b \in input.batch.has : Len(input.batch[a]) # Len(input.batch[b])
         THEN [err |-> "ValueError", batches |-> <<>>]     \* DataFrame.from_dict
         ELSE [err |-> "none", batches |-> <<[lkey |-> key, batch |-> input.batch]>>]
    ELSE IF input.kind = "Contacts"
    THEN [err |-> "none",
          batches |-> <<[lkey |-> key,
                         batch |-> Batch({input.graph[i].name : i \in 1..Len(input.graph)},
                                         <<>>, <<>>, <<>>, <<>>)]>>]
    ELSE IF input.kind = "list"
    THEN MakeEdgelistResult(input.adj)
    ELSE [err |-> "TypeError", batches |-> <<>>]

\* Layer.validate(): every column as long as p1.
LayerValid(layer) == \A i \in 1..Len(LayerInfo) : Len(layer[LayerInfo[i]]) = Len(layer.p1)

\* c with the layer stored under name replaced.
WithLayer(c, name, layer) ==
    [i \in 1..Len(c) |-> IF c[i].name = name THEN [name |-> name, layer |-> layer] ELSE c[i]]

\* The new values put in front of the column.
ConcatColumnInFront(old, new) == new \o old

\* np.concatenate([self.contacts[lkey][col], new_layer[col]])
ConcatColumn(old, new) == old \o new

\* A default beta that is the weight of the first configured layer whatever
\* the key.
BetaOfFirstLayer(key) == BetaLayer[1].beta

\* self.pars['beta_layer'][key], for a configured key.
BetaOfLayer(key) == BetaLayer[CHOOSE i \in 1..Len(BetaLayer) : BetaLayer[i].name = key].beta

\* One round of the loop of add_contacts over new_contacts.items():
\* [err, contacts, beta].  The layer and beta columns are filled in when
\* absent (with key and with pars['beta_layer'][key]: the key of the call), the
\* columns are concatenated one after the other onto self.contacts[lkey], and
\* the layer is validated.
AppendBatch(c, lkey, batch, key, beta) ==
    IF "p1" \notin batch.has THEN [err |-> "KeyError", contacts |-> c, beta |-> beta]
    ELSE
    LET n == Len(batch.p1)
        b1 == IF "layer" \notin batch.has
              THEN [batch EXCEPT !.has = @ \cup {"layer"}, !.layer = Rep(key, n)]
              ELSE batch
        needBeta == "beta" \notin b1.has \/ Len(b1.beta) # n
        known == \E i \in 1..Len(BetaLayer) : BetaLayer[i].name = key
        beta1 == IF needBeta /\ beta = NoneBeta THEN <<BetaOfLayer(key)>> ELSE beta
        b2 == IF needBeta
              THEN [b1 EXCEPT !.has = @ \cup {"beta"}, !.beta = Rep(beta1[1], n)]
              ELSE b1
        target == ContactsGetItem(c, StrKey(lkey))
        missing == {i \in 1..Len(LayerInfo) : LayerInfo[i] \notin b2.has}
        Done(col) == \A i \in missing : ColIdx(col) < i
        New(col) == IF Done(col) THEN ConcatColumn(target.layer[col], b2[col])
                                 ELSE target.layer[col]
        grown == [p1 |-> New("p1"), p2 |-> New("p2"), beta |-> New("beta"),
                  layer |-> New("layer")]
    IN  IF needBeta /\ beta = NoneBeta /\ ~known
        THEN [err |-> "KeyError", contacts |-> c, beta |-> beta]   \* pars['beta_layer'][key]
        ELSE IF target.err # "none"
        THEN [err |-> target.err, contacts |-> c, beta |-> beta1]
        ELSE IF missing # {}
        THEN [err |-> "KeyError", contacts |-> WithLayer(c, lkey, grown), beta |-> beta1]
        ELSE IF ~LayerValid(grown)
        THEN [err |-> "AssertionError", contacts |-> WithLayer(c, lkey, grown), beta |-> beta1]
        ELSE [err |-> "none", contacts |-> WithLayer(c, lkey, grown), beta |-> beta1]

RECURSIVE AppendBatches(_, _, _, _)
\* The loop of add_contacts over new_contacts.items(): [err, contacts].
AppendBatches(c, batches, key, beta) ==
    IF batches = <<>> THEN [err |-> "none", contacts |-> c]
    ELSE LET r == AppendBatch(c, Head(batches).lkey, Head(batches).batch, key, beta)
         IN  IF r.err # "none" THEN [err |-> r.err, contacts |-> r.contacts]
             ELSE AppendBatches(r.contacts, Tail(batches), key, r.beta)

\* BasePeople.add_contacts(contacts, key, beta) on the graph c: [err, contacts].
AddContactsResult(c, input, keyArg, betaArg) ==
    LET key == IF keyArg = NoneKey THEN ContactKeys[1] ELSE keyArg
        c1 == IF HasKey(c, key) THEN c ELSE Append(c, [name |-> key, layer |-> EmptyLayer])
        norm == NormalizeContacts(input, key)
    IN  IF norm.err # "none" THEN [err |-> norm.err, contacts |-> c1]
        ELSE AppendBatches(c1, norm.batches, key, betaArg)

\* ---- the inputs offered to add_contacts
\* The edge batches: the first n edges of the chain 0-1, 1-2, 2-3, ...
EdgeSeqs == {[i \in 1..n |-> <<i - 1, i>>] : n \in 0..MaxBatch}

P1Of(es) == [i \in 1..Len(es) |-> es[i][1]]

P2Of(es) == [i \in 1..Len(es) |-> es[i][2]]

Input(kind, batch, adj, graph) == [kind |-> kind, batch |-> batch, adj |-> adj, graph |-> graph]

NoBatch == Batch({}, <<>>, <<>>, <<>>, <<>>)

\* A Layer has every column from its construction; the caller has filled in
\* p1 and p2 alone, or the layer column too, or every column.
LayerInputs ==
    UNION {{Input("Layer", Batch({"p1", "p2", "beta", "layer"}, P1Of(es), P2Of(es),
                                 Rep(7, n[1]), Rep("x", n[2])), <<>>, <<>>) :
               n \in {<<0, 0>>, <<0, Len(es)>>, <<Len(es), Len(es)>>}} : es \in EdgeSeqs}

\* A mapping column -> values: p1 and p2, every column, p1 alone, and p1 and
\* p2 of different lengths.
DictInputs ==
    {Input("dict", Batch(has, P1Of(es),
                              IF "p2" \in has THEN P2Of(es) ELSE <<>>,
                              IF "beta" \in has THEN Rep(7, Len(es)) ELSE <<>>,
                              IF "layer" \in has THEN Rep("x", Len(es)) ELSE <<>>), <<>>, <<>>) :
        es \in EdgeSeqs,
        has \in {{"p1", "p2"}, {"p1", "p2", "beta", "layer"}, {"p1"}}}
    \cup {Input("dict", Batch({"p1", "p2"}, <<0>>, <<>>, <<>>, <<>>), <<>>, <<>>)}

Entry(key, nbrs) == [key |-> key, nbrs |-> nbrs]

\* Lists with one dict per person: the three people of one household, two
\* people in two layers, people without contacts, and the empty list.
ListInputs ==
    {Input("list", NoBatch, adj, <<>>) : adj \in {
        << <<Entry("h", <<1, 2>>)>>, <<Entry("h", <<0>>)>>, <<Entry("h", <<0>>)>> >>,
        << <<Entry("h", <<1>>), Entry("c", <<1>>)>>, <<Entry("h", <<0>>), Entry("c", <<0>>)>> >>,
        << <<>>, <<Entry("h", <<0>>)>> >>,
        << <<>>, <<>> >>,
        << >> }}

ContactsInputs == {Input("Contacts", NoBatch, <<>>, InitContacts)}

\* Anything else, such as a number or a string.
OtherInputs == {Input("other", NoBatch, <<>>, <<>>)}

ContactInputs == LayerInputs \cup DictInputs \cup ListInputs \cup ContactsInputs \cup OtherInputs

\* The number of edges of the graph: the p1 entries of all its layers.
EdgeCount(c) == Len(Concat([i \in 1..Len(c) |-> c[i].layer.p1]))

AddContacts(input, keyArg, betaArg) ==
    LET r == AddContactsResult(contacts, input, keyArg, betaArg)
    IN  /\ Idle
        /\ EdgeCount(r.contacts) <= MaxEdges
        /\ pre' = contacts
        /\ contacts' = r.contacts
        /\ last' = [NoCall EXCEPT !.op = "add_contacts", !.key = keyArg, !.value = betaArg,
                                  !.other = input, !.err = r.err]
        /\ UNCHANGED <<pop_size, arrays, transtree, df, lock, heap, stores>>

\* people.contacts[key]
GetItem(key) ==
    LET r == ContactsGetItem(contacts, key)
    IN  /\ Idle
        /\ pre' = contacts
        /\ last' = [NoCall EXCEPT !.op = "getitem", !.other = key, !.err = r.err,
                                  !.ret = r.layer]
        /\ UNCHANGED <<pop_size, arrays, transtree, contacts, df, lock, heap, stores>>

RECURSIVE RemoveKeys(_, _)
\* BasePeople.remove_dynamic_contacts(dynamic_keys) on the graph c:
\* [err, contacts].  A key of pars['contacts'] is popped from the graph, which
\* raises KeyError when the graph does not hold it.
RemoveKeys(c, keys) ==
    IF keys = <<>> THEN [err |-> "none", contacts |-> c]
    ELSE IF Head(keys) \notin ParsContacts THEN RemoveKeys(c, Tail(keys))
    ELSE IF ~HasKey(c, Head(keys)) THEN [err |-> "KeyError", contacts |-> c]
    ELSE RemoveKeys(SelectSeq(c, LAMBDA e : e.name # Head(keys)), Tail(keys))

RemoveDynamicContacts(keys) ==
    LET r == RemoveKeys(contacts, keys)
    IN  /\ Idle
        /\ pre' = contacts
        /\ contacts' = r.contacts
        /\ last' = [NoCall EXCEPT !.op = "remove_dynamic_contacts", !.other = keys,
                                  !.err = r.err]
        /\ UNCHANGED <<pop_size, arrays, transtree, df, lock, heap, stores>>

\* The call on the graph has returned.
ReturnGraph ==
    /\ ~Idle
    /\ last' = NoCall
    /\ pre' = contacts
    /\ UNCHANGED <<pop_size, arrays, transtree, contacts, df, lock, heap, stores>>

LayerNames == {"h", "c", "w"}

GetKeys == {StrKey(n) : n \in LayerNames \cup {"zz"}} \cup {IntKey(n) : n \in -MaxIndex..MaxIndex}

InitGraph ==
    /\ pop_size = 0
    /\ arrays = InitArrays(0)
    /\ transtree = TransTreeInit(0)
    /\ contacts = InitContacts
    /\ df = <<>>
    /\ pre = InitContacts
    /\ last = [NoCall EXCEPT !.op = "init"]
    /\ lock = Locked
    /\ heap = <<>>
    /\ stores = <<>>

NextGraph ==
    \/ \E input \in ContactInputs, keyArg \in LayerNames \cup {NoneKey},
          betaArg \in {NoneBeta, <<7>>} : AddContacts(input, keyArg, betaArg)
    \/ \E key \in GetKeys : GetItem(key)
    \/ \E keys \in {<<"c">>, <<"w">>, <<"c", "w">>, <<"c", "c">>} :
          RemoveDynamicContacts(keys)
    \/ ReturnGraph

SpecGraph == InitGraph /\ [][NextGraph]_vars

\* ------------------------------------------------------------------ objects and references
\* The stores of a combine hold references to mutable objects: one ndarray per
\* state key, the TransTree, the Contacts dict and one Layer dict per layer.
\* heap[r] is the contents of object r.
Obj(kind, val) == [kind |-> kind, val |-> val]

\* The layers of the Contacts object c of heap h, as a graph of values.
ViewContacts(h, c) ==
    [i \in 1..Len(h[c].val) |->
        [name |-> h[c].val[i].name, layer |-> h[h[c].val[i].ref].val]]

\* What a caller observes of the store st in heap h.
View(h, st) ==
    [pop_size |-> st.pop_size,
     arrays |-> [k \in KeySet |-> h[st.arrays[k]].val],
     contacts |-> ViewContacts(h, st.contacts),
     transtree |-> h[st.transtree].val]

\* The objects the store st refers to, directly or through its Contacts.
Reach(h, st) ==
    {st.arrays[k] : k \in KeySet} \cup {st.transtree, st.contacts}
        \cup {h[st.contacts].val[i].ref : i \in 1..Len(h[st.contacts].val)}

\* A store constructed in heap h with the values of v: [heap, store].  Its
\* objects are new: the arrays, the TransTree, the Contacts and its layers.
NewStore(h, v) ==
    LET base == Len(h)
        nk == Len(Keys)
        cvals == InitContacts
    IN  [heap |-> h \o [i \in 1..nk |-> Obj("array", v.arrays[Keys[i]])]
                    \o <<Obj("transtree", TransTreeInit(v.pop_size))>>
                    \o <<Obj("contacts", [i \in 1..Len(cvals) |->
                                            [name |-> cvals[i].name, ref |-> base + nk + 2 + i]])>>
                    \o [i \in 1..Len(cvals) |-> Obj("layer", cvals[i].layer)],
         store |-> [pop_size |-> v.pop_size,
                    arrays |-> [k \in KeySet |-> base + KeyIdx(k)],
                    transtree |-> base + nk + 1,
                    contacts |-> base + nk + 2]]

\* copy.copy in place of the deep copy: a new store holding the same references.
ShallowCopy(h, st) == [heap |-> h, store |-> st]

\* sc.dcp(self): [heap, store], the store with a new copy of every object it
\* reaches.
DeepCopy(h, st) ==
    LET base == Len(h)
        nk == Len(Keys)
        old == h[st.contacts].val
    IN  [heap |-> h \o [i \in 1..nk |-> h[st.arrays[Keys[i]]]]
                    \o <<h[st.transtree]>>
                    \o <<Obj("contacts", [i \in 1..Len(old) |->
                                            [name |-> old[i].name, ref |-> base + nk + 2 + i]])>>
                    \o [i \in 1..Len(old) |-> h[old[i].ref]],
         store |-> [pop_size |-> st.pop_size,
                    arrays |-> [k \in KeySet |-> base + KeyIdx(k)],
                    transtree |-> base + nk + 1,
                    contacts |-> base + nk + 2]]

\* BasePeople.__add__ on the stores a and b of heap h: [err, heap, store].
\* newpeople is the copy of a; each set binds the key of newpeople to a new
\* array (np.concatenate, then np.array(value, dtype)).
HeapAddResult(h, a, b) ==
    LET cp == DeepCopy(h, a)
        r == AddResult(View(cp.heap, cp.store), View(h, b))
        base == Len(cp.heap)
    IN  IF r.err # "none" THEN [err |-> r.err, heap |-> cp.heap, store |-> cp.store]
        ELSE [err |-> "none",
              heap |-> cp.heap \o [i \in 1..Len(Keys) |-> Obj("array", r.store.arrays[Keys[i]])],
              store |-> [cp.store EXCEPT !.pop_size = r.store.pop_size,
                                         !.arrays = [k \in KeySet |-> base + KeyIdx(k)]]]

\* BasePeople.set on the store st of heap h: [err, heap, store].  self[key] is
\* bound to a new array.
HeapSetResult(h, st, key, value, die) ==
    LET r == SetResult(View(h, st).arrays, key, value, die)
    IN  IF r.err # "none" THEN [err |-> r.err, heap |-> h, store |-> st]
        ELSE [err |-> "none",
              heap |-> Append(h, Obj("array", r.arrays[key])),
              store |-> [st EXCEPT !.arrays[key] = Len(h) + 1]]

\* BasePeople.resize on the store st of heap h: [heap, store].  ndarray.resize
\* changes the array object itself.
HeapResizeResult(h, st, size) ==
    LET r == ResizeResult(st.pop_size, View(h, st).arrays, size, NoneNames)
    IN  [heap |-> [i \in 1..Len(h) |->
                     IF \E k \in KeySet : st.arrays[k] = i
                     THEN Obj("array", r.arrays[CHOOSE k \in KeySet : st.arrays[k] = i])
                     ELSE h[i]],
         store |-> [st EXCEPT !.pop_size = r.pop_size]]

\* BasePeople.add_contacts on the store st of heap h: [err, heap].  A missing
\* key puts a new Layer in the Contacts object; the columns are assigned into
\* the Layer objects of the graph.
HeapAddContactsResult(h, st, input, keyArg, betaArg) ==
    LET c == st.contacts
        old == h[c].val
        r == AddContactsResult(ViewContacts(h, c), input, keyArg, betaArg)
        fresh == Len(r.contacts) - Len(old)
    IN  [err |-> r.err,
         heap |-> [i \in 1..Len(h) |->
                     IF i = c
                     THEN Obj("contacts", old \o [j \in 1..fresh |->
                              [name |-> r.contacts[Len(old) + j].name, ref |-> Len(h) + j]])
                     ELSE IF \E j \in 1..Len(old) : old[j].ref = i
                     THEN Obj("layer", r.contacts[CHOOSE j \in 1..Len(old) : old[j].ref = i].layer)
                     ELSE h[i]]
                  \o [j \in 1..fresh |-> Obj("layer", r.contacts[Len(old) + j].layer)]]

\* ---- the actions: two stores A and B, R = A + B, then calls on R
\* The operands: a store of every size up to MaxOther, its uids counted from 0
\* and everybody susceptible.
ShareStores ==
    {[pop_size |-> n, arrays |-> [k \in KeySet |-> IF k = "uid" THEN Arange(n) ELSE Rep(1, n)]] :
        n \in 0..MaxOther}

InitShare ==
    \E va \in ShareStores, vb \in ShareStores :
        LET a == NewStore(<<>>, va)
            b == NewStore(a.heap, vb)
        IN  /\ heap = b.heap
            /\ stores = [A |-> a.store, B |-> b.store]
            /\ pre = [A |-> View(b.heap, a.store), B |-> View(b.heap, b.store)]
            /\ last = [NoCall EXCEPT !.op = "init"]
            /\ pop_size = 0
            /\ arrays = InitArrays(0)
            /\ transtree = TransTreeInit(0)
            /\ contacts = InitContacts
            /\ df = <<>>
            /\ lock = Locked

Combined == "R" \in DOMAIN stores

\* R = A + B
HeapAdd ==
    LET r == HeapAddResult(heap, stores.A, stores.B)
    IN  /\ ~Combined
        /\ r.err = "none"
        /\ heap' = r.heap
        /\ stores' = [A |-> stores.A, B |-> stores.B, R |-> r.store]
        /\ last' = [NoCall EXCEPT !.op = "add"]
        /\ UNCHANGED <<pop_size, arrays, transtree, contacts, df, pre, lock>>

\* R.set(key, value, die); last.size counts the calls made on R.
HeapSet(key, value, die) ==
    LET r == HeapSetResult(heap, stores.R, key, value, die)
    IN  /\ Combined
        /\ last.size < MaxCalls
        /\ heap' = r.heap
        /\ stores' = [stores EXCEPT !.R = r.store]
        /\ last' = [NoCall EXCEPT !.op = "set", !.key = key, !.err = r.err,
                                  !.size = last.size + 1]
        /\ UNCHANGED <<pop_size, arrays, transtree, contacts, df, pre, lock>>

\* R.resize(size)
HeapResize(size) ==
    LET r == HeapResizeResult(heap, stores.R, size)
    IN  /\ Combined
        /\ last.size < MaxCalls
        /\ heap' = r.heap
        /\ stores' = [stores EXCEPT !.R = r.store]
        /\ last' = [NoCall EXCEPT !.op = "resize", !.size = last.size + 1]
        /\ UNCHANGED <<pop_size, arrays, transtree, contacts, df, pre, lock>>

\* R.add_contacts(input, key, beta)
HeapAddContacts(input, keyArg, betaArg) ==
    LET r == HeapAddContactsResult(heap, stores.R, input, keyArg, betaArg)
    IN  /\ Combined
        /\ last.size < MaxCalls
        /\ heap' = r.heap
        /\ last' = [NoCall EXCEPT !.op = "add_contacts", !.key = keyArg, !.err = r.err,
                                  !.size = last.size + 1]
        /\ UNCHANGED <<pop_size, arrays, transtree, contacts, df, pre, lock, stores>>

\* The edge batches added to R: one edge, as a Layer and as a mapping.
ShareInputs ==
    {Input("Layer", Batch({"p1", "p2", "beta", "layer"}, <<0>>, <<1>>, <<>>, <<>>), <<>>, <<>>),
     Input("dict", Batch({"p1", "p2"}, <<1>>, <<0>>, <<>>, <<>>), <<>>, <<>>)}

NextShare ==
    \/ HeapAdd
    \/ \E key \in KeySet, value \in WriteValues, die \in BOOLEAN : HeapSet(key, value, die)
    \/ \E size \in 0..MaxSize : HeapResize(size)
    \/ \E input \in ShareInputs, keyArg \in {"h", "w"} : HeapAddContacts(input, keyArg, <<7>>)

SpecShare == InitShare /\ [][NextShare]_vars

\* ================================================================== claims
\* Every array of the store st is as long as st.pop_size.
Valid(st) == \A k \in KeySet : Len(st.arrays[k]) = st.pop_size

\* The array a cut to its first n entries, or followed by zeros up to n entries.
TruncOrPad(a, n) ==
    IF n <= Len(a) THEN SubSeq(a, 1, n) ELSE a \o [i \in 1..(n - Len(a)) |-> 0]

\* The size a resize call asks for.
AskedSize == IF last.size = NoneSize THEN pre.pop_size ELSE last.size

\* The names a resize call lists.
AskedNames == IF last.names = NoneNames THEN KeySet ELSE last.names

\* C1 (as claimed): in every reachable state, whatever public mutations led
\* to it (set with or without die=False, resize with all or some names,
\* validate, __add__, from_people), every array is pop_size long.
C1_EveryArrayHasPopSize == \A k \in KeySet : Len(arrays[k]) = pop_size

\* A call that is allowed to leave an array with a length other than
\* pop_size: set with die=False and a value of another length, or resize to a
\* new size over only some of the names.
C1_OverrideCall ==
    \/ last.op = "set" /\ ~last.die /\ Len(last.value) # pre.pop_size
    \/ last.op = "resize" /\ AskedNames # KeySet /\ AskedSize # pre.pop_size

\* C1 (amended): a freshly initialized store has every array pop_size long, and
\* every call of set, resize, validate, __add__ or from_people made on a store
\* whose arrays are all pop_size long leaves them all pop_size long, unless it
\* is set with die=False and a value of another length or resize to another
\* size over a proper subset of the names.
C1_ArraysHavePopSizeUnlessOverridden ==
    /\ last.op = "init" => Valid(Store)
    /\ (Valid(pre) /\ ~C1_OverrideCall) => Valid(Store)

C1_Witness ==
    /\ last.op = "resize" /\ last.names = NoneNames /\ last.size # NoneSize
    /\ Valid(pre) /\ pre.pop_size < pop_size
    /\ Valid(Store)

\* C2: for valid stores A and B, A + B has pop_size len(A)+len(B), uid equal
\* to 0..len(A)+len(B)-1 in order, and every other array equal to A's array
\* followed by B's.
C2_AddConcatenates ==
    (last.op = "add" /\ Valid(pre) /\ Valid(last.other)) =>
        /\ last.err = "none"
        /\ pop_size = pre.pop_size + last.other.pop_size
        /\ Len(arrays["uid"]) = pop_size
        /\ \A i \in 1..pop_size : arrays["uid"][i] = i - 1
        /\ \A k \in KeySet \ {"uid"} : arrays[k] = pre.arrays[k] \o last.other.arrays[k]

C2_Witness ==
    /\ last.op = "add" /\ last.err = "none"
    /\ pre.pop_size = 1 /\ last.other.pop_size = 1
    /\ pre.arrays["susceptible"] # last.other.arrays["susceptible"]
    /\ pre.arrays["uid"] = <<2>>

\* C3 (as claimed): set(key, value) with die=True raises the length-mismatch
\* error exactly when len(value) differs from pop_size, leaving every array as
\* it was, and otherwise replaces the named array only.
C3_SetChecksAgainstPopSize ==
    (last.op = "set" /\ last.die /\ last.key \in KeySet) =>
        IF Len(last.value) # pre.pop_size
        THEN last.err = "IndexError" /\ arrays = pre.arrays
        ELSE /\ last.err = "none"
             /\ arrays = [pre.arrays EXCEPT ![last.key] = Coerce(last.key, last.value)]

\* C3 (amended): set(key, value) with die=True raises the length-mismatch
\* error exactly when len(value) differs from the current length of the named
\* array, leaving every array and pop_size as they were, and otherwise replaces
\* the named array only, by the value coerced to the array's element type.
C3_SetChecksAgainstCurrentLength ==
    (last.op = "set" /\ last.die /\ last.key \in KeySet) =>
        /\ pop_size = pre.pop_size
        /\ IF Len(last.value) # Len(pre.arrays[last.key])
           THEN last.err = "IndexError" /\ arrays = pre.arrays
           ELSE /\ last.err = "none"
                /\ \A k \in KeySet \ {last.key} : arrays[k] = pre.arrays[k]
                /\ Len(arrays[last.key]) = Len(last.value)
                /\ \A i \in 1..Len(last.value) :
                      arrays[last.key][i] = CoerceVal(Dtypes[last.key], last.value[i])

C3_Witness ==
    /\ last.op = "set" /\ last.die /\ last.key = "susceptible"
    /\ last.err = "IndexError"
    /\ Len(last.value) = pre.pop_size
    /\ Len(pre.arrays["susceptible"]) # pre.pop_size

\* The 0-based indices of a whose entry satisfies Want, in ascending order.
IndicesWhere(a, Want(_)) ==
    LET S == {i \in 0..(Len(a) - 1) : Want(a[i + 1])}
        Rank(i) == Cardinality({j \in S : j < i}) + 1
    IN  [r \in 1..Cardinality(S) |-> CHOOSE i \in S : Rank(i) = r]

Truthy(v) == v # 0

Falsy(v) == v = 0

\* C4: true(key) returns exactly the indices whose value is truthy, false(key)
\* exactly the indices whose value is falsy, each ascending, so that the two
\* partition 0..len-1.
C4_TrueAndFalsePartition ==
    /\ last.op = "true" => last.ret = IndicesWhere(pre.arrays[last.key], Truthy)
    /\ last.op = "false" => last.ret = IndicesWhere(pre.arrays[last.key], Falsy)

\* The unordered pairs {p1, p2} of the rows of t whose endpoints differ.
UnorderedPairs(t) == {{t[i].p1, t[i].p2} : i \in {j \in 1..Len(t) : t[j].p1 # t[j].p2}}

\* C5: the table remove_duplicates returns has p1 < p2 in every row, no
\* (p1, p2) twice, its rows in ascending (p1, p2), and the unordered pairs of
\* the input's rows that are not self pairs; applied to its own output it
\* returns that output.
C5_RemoveDuplicatesCanonical ==
    last.op = "remove_duplicates" =>
        /\ \A i \in 1..Len(df) : df[i].p1 < df[i].p2
        /\ \A i, j \in 1..Len(df) : i < j => PairLess(df[i], df[j])
        /\ UnorderedPairs(df) = UnorderedPairs(pre)
        /\ last.size >= 2 => df = pre

C5_WitnessSecondCall ==
    /\ last.op = "remove_duplicates" /\ last.size = 2
    /\ Len(df) = 2

C5_WitnessInput ==
    /\ last.op = "remove_duplicates" /\ last.size = 1
    /\ Len(pre) = 3 /\ Len(df) = 1
    /\ pre[1].p1 > pre[1].p2
    /\ \E i \in 1..3 : pre[i].p1 = pre[i].p2

\* The edges (p, neighbour) the adjacency list adj lists under layer L, person
\* by person.
ListedEdges(adj, L) ==
    Concat([p \in 1..Len(adj) |->
        Concat([i \in 1..Len(adj[p]) |->
            IF adj[p][i].key = L
            THEN [m \in 1..Len(adj[p][i].nbrs) |-> <<p - 1, adj[p][i].nbrs[m]>>]
            ELSE <<>>])])

\* The layer stored under L in the graph c, or an empty layer.
LayerOrEmpty(c, L) == IF HasKey(c, L) THEN LayerOf(c, L) ELSE EmptyLayer

\* C6: add_contacts with a per-person adjacency list appends, to every layer L
\* of the list, one edge (p, neighbour) per neighbour in p's list under L,
\* tagged L, mirror edges included, and changes no other layer.
C6_AdjacencyBecomesEdges ==
    (last.op = "add_contacts" /\ last.other.kind = "list" /\ Len(last.other.adj) > 0) =>
        LET adj == last.other.adj
            listed == UNION {{adj[p][i].key : i \in 1..Len(adj[p])} : p \in 1..Len(adj)}
        IN  /\ last.err = "none"
            /\ \A L \in listed :
                  LET e == ListedEdges(adj, L)
                  IN  /\ LayerOrEmpty(contacts, L).p1 = LayerOrEmpty(pre, L).p1 \o P1Of(e)
                      /\ LayerOrEmpty(contacts, L).p2 = LayerOrEmpty(pre, L).p2 \o P2Of(e)
                      /\ LayerOrEmpty(contacts, L).layer
                            = LayerOrEmpty(pre, L).layer \o Rep(L, Len(e))
            /\ \A L \in LayerNames \ listed :
                  LayerOrEmpty(contacts, L) = LayerOrEmpty(pre, L)

\* C7: resize(new_size, names) does not raise; afterwards pop_size is the size
\* asked for, every listed array is its old contents cut to that size or
\* followed by zeros up to it, and the other arrays are unchanged.
C7_ResizeTruncatesOrZeroExtends ==
    last.op = "resize" =>
        /\ last.err = "none"
        /\ pop_size = AskedSize
        /\ \A k \in AskedNames : arrays[k] = TruncOrPad(pre.arrays[k], AskedSize)
        /\ \A k \in KeySet \ AskedNames : arrays[k] = pre.arrays[k]

C7_Witness ==
    /\ last.op = "resize" /\ last.names = {"uid"} /\ last.size = 2
    /\ pre.arrays["uid"] = <<2>>
    /\ arrays["uid"] = <<2, 0>>
    /\ Len(pre.arrays["susceptible"]) = 0

\* C8: validate(die=False) does not raise; it leaves pop_size alone, cuts or
\* zero-pads exactly the arrays whose length differs from pop_size, leaves the
\* others alone, and every array is pop_size long when it returns.
C8_LenientValidateRepairs ==
    (last.op = "validate" /\ ~last.die) =>
        /\ last.err = "none"
        /\ pop_size = pre.pop_size
        /\ \A k \in KeySet :
              arrays[k] = IF Len(pre.arrays[k]) # pre.pop_size
                          THEN TruncOrPad(pre.arrays[k], pre.pop_size)
                          ELSE pre.arrays[k]
        /\ Valid(Store)

C8_Witness ==
    /\ last.op = "validate" /\ ~last.die
    /\ \A k \in KeySet : Len(pre.arrays[k]) # pre.pop_size
    /\ Len(pre.arrays["uid"]) > pre.pop_size
    /\ Len(pre.arrays["susceptible"]) < pre.pop_size

\* C9: the transmission tree of the store has len(sources) = len(targets) =
\* pop_size in every reachable state: right after initialization, and after
\* any sequence of resize and __add__.
C9_LedgerHasPopSize ==
    /\ Len(transtree.sources) = pop_size
    /\ Len(transtree.targets) = pop_size

\* C10 (as claimed): contacts[key] returns the layer stored under key when key
\* is a layer name; otherwise the layer at position key when key is an integer
\* position 0..len-1; otherwise it raises KeyError; the graph is unchanged.
C10_GetByNameOrPosition ==
    last.op = "getitem" =>
        LET key == last.other
        IN  /\ contacts = pre
            /\ IF key.kind = "str" /\ HasKey(pre, key.s)
               THEN last.err = "none" /\ last.ret = LayerOf(pre, key.s)
               ELSE IF key.kind = "int" /\ 0 <= key.i /\ key.i < Len(pre)
               THEN last.err = "none" /\ last.ret = pre[key.i + 1].layer
               ELSE last.err = "KeyError"

\* C10 (amended): as claimed, with the integer positions being Python's list
\* positions: 0..len-1 counts from the first layer, -len..-1 from the last
\* (-1 is the layer inserted last); any other integer and any other name
\* raises KeyError.
C10_GetByNameOrListPosition ==
    last.op = "getitem" =>
        LET key == last.other
        IN  /\ contacts = pre
            /\ IF key.kind = "str" /\ HasKey(pre, key.s)
               THEN last.err = "none" /\ last.ret = LayerOf(pre, key.s)
               ELSE IF key.kind = "int" /\ 0 <= key.i /\ key.i < Len(pre)
               THEN last.err = "none" /\ last.ret = pre[key.i + 1].layer
               ELSE IF key.kind = "int" /\ -Len(pre) <= key.i /\ key.i < 0
               THEN last.err = "none" /\ last.ret = pre[Len(pre) + key.i + 1].layer
               ELSE last.err = "KeyError"

C10_Witness ==
    /\ last.op = "getitem" /\ last.other = IntKey(-1) /\ last.err = "none"
    /\ Len(pre) = 3
    /\ last.ret = pre[3].layer
    /\ last.ret # pre[1].layer /\ last.ret # pre[2].layer

\* C11: after remove_dynamic_contacts(keys) none of the named layers is a key of
\* the graph, every layer not named is still there with the same edges, and the
\* call does not fail, whether or not a named layer was in the graph.
C11_RemoveDeletesNamedLayers ==
    last.op = "remove_dynamic_contacts" =>
        LET named == {last.other[i] : i \in 1..Len(last.other)}
        IN  /\ last.err = "none"
            /\ \A L \in named : ~HasKey(contacts, L)
            /\ \A i \in 1..Len(pre) :
                  pre[i].name \notin named =>
                      HasKey(contacts, pre[i].name)
                      /\ LayerOf(contacts, pre[i].name) = pre[i].layer
            /\ \A i \in 1..Len(contacts) : HasKey(pre, contacts[i].name)

\* The two ways the call departs from C11: a named layer of pars['contacts']
\* that the graph does not hold raises KeyError, and a named layer outside
\* pars['contacts'] stays in the graph.
C11_FailsOnAbsentLayer ==
    /\ last.op = "remove_dynamic_contacts" /\ last.err = "KeyError"
    /\ last.other = <<"c", "c">> /\ HasKey(pre, "c")

C11_KeepsUnconfiguredLayer ==
    /\ last.op = "remove_dynamic_contacts" /\ last.err = "none"
    /\ last.other = <<"w">> /\ HasKey(pre, "w") /\ HasKey(contacts, "w")

\* The batch of the input has no usable beta column: none at all, or one that
\* is not as long as p1 (a Layer whose beta was left empty); the batches made
\* from a list or a Contacts never carry one.
LacksBeta(input) ==
    \/ input.kind \in {"list", "Contacts"}
    \/ /\ input.kind \in {"Layer", "dict"}
       /\ "beta" \notin input.batch.has \/ Len(input.batch.beta) # Len(input.batch.p1)

\* pars['beta_layer'][L] as the configuration gives it.
ConfiguredWeight(L) == IF L = "h" THEN 3 ELSE 1

\* C12: add_contacts called without a beta, with batches that lack a beta
\* column: every edge appended to a layer L has beta = pars['beta_layer'][L].
C12_DefaultBetaIsWeightOfLayer ==
    (last.op = "add_contacts" /\ last.value = NoneBeta /\ LacksBeta(last.other)) =>
        \A k \in 1..Len(contacts) :
            LET L == contacts[k].name
                old == LayerOrEmpty(pre, L).beta
                new == contacts[k].layer.beta
            IN  /\ Len(new) >= Len(old)
                /\ \A i \in 1..Len(new) :
                      IF i <= Len(old) THEN new[i] = old[i] ELSE new[i] = ConfiguredWeight(L)

C12_Witness ==
    /\ last.op = "add_contacts" /\ last.value = NoneBeta /\ last.key = "c"
    /\ last.err = "none" /\ last.other.kind = "dict" /\ LacksBeta(last.other)
    /\ Len(last.other.batch.p1) = 1
    /\ LayerOf(contacts, "c").beta = LayerOf(pre, "c").beta \o <<1>>
    /\ LayerOf(contacts, "c").p1 = LayerOf(pre, "c").p1 \o last.other.batch.p1

C14_UnrecognizedInputLeavesGraph ==
    (last.op = "add_contacts" /\ last.other.kind = "other") =>
        last.err = "TypeError" /\ contacts = pre

\* The call that departs from C14: the key is not yet a layer, the call fails
\* with TypeError, and the graph has gained an empty layer under the key.
C14_FailedCallCreatesLayer ==
    /\ last.op = "add_contacts" /\ last.other.kind = "other" /\ last.key = "w"
    /\ last.err = "TypeError"
    /\ ~HasKey(pre, "w")
    /\ contacts = Append(pre, [name |-> "w", layer |-> EmptyLayer])

\* C15: A + B leaves A and B as they were and the result shares no object with
\* them: pop_size, arrays, contact layers and ledger of A and of B are what
\* they were before the call, also after later calls of set, resize and
\* add_contacts on the result.
C15_CombineSharesNothing ==
    /\ View(heap, stores.A) = pre.A
    /\ View(heap, stores.B) = pre.B
    /\ Combined =>
          Reach(heap, stores.R) \cap (Reach(heap, stores.A) \cup Reach(heap, stores.B)) = {}

C15_Witness ==
    /\ Combined
    /\ last.op = "add_contacts" /\ last.err = "none"
    /\ View(heap, stores.R).pop_size # pre.A.pop_size + pre.B.pop_size
    /\ View(heap, stores.R).contacts # pre.A.contacts
    /\ View(heap, stores.R).arrays.susceptible # pre.A.arrays.susceptible \o pre.B.arrays.susceptible
    /\ pre.A.pop_size > 0 /\ pre.B.pop_size > 0
    /\ View(heap, stores.A) = pre.A

\* The layer a call of add_contacts with a Layer or a mapping appends to.
TargetLayer == IF last.key = NoneKey THEN ContactKeys[1] ELSE last.key

\* The number of edges of the batch handed to add_contacts.
BatchSize == Len(last.other.batch.p1)

\* C16: after a successful add_contacts of a batch into layer L every column of
\* L has the same length, the rows L had before are its first rows in the same
\* order, the edge count of L grew by the batch size, and no other layer
\* changed.
C16_AppendKeepsColumnsAligned ==
    (last.op = "add_contacts" /\ last.err = "none" /\ last.other.kind \in {"Layer", "dict"}) =>
        LET L == TargetLayer
            old == LayerOrEmpty(pre, L)
            new == LayerOrEmpty(contacts, L)
        IN  /\ HasKey(contacts, L)
            /\ \A i \in 1..Len(LayerInfo) :
                  /\ Len(new[LayerInfo[i]]) = Len(new.p1)
                  /\ Len(old[LayerInfo[i]]) <= Len(new[LayerInfo[i]])
                  /\ SubSeq(new[LayerInfo[i]], 1, Len(old[LayerInfo[i]])) = old[LayerInfo[i]]
            /\ Len(new.p1) = Len(old.p1) + BatchSize
            /\ \A i \in 1..Len(pre) :
                  pre[i].name # L => /\ HasKey(contacts, pre[i].name)
                                     /\ LayerOf(contacts, pre[i].name) = pre[i].layer
            /\ \A i \in 1..Len(contacts) : contacts[i].name = L \/ HasKey(pre, contacts[i].name)

C16_Witness ==
    /\ last.op = "add_contacts" /\ last.err = "none" /\ last.key = "h"
    /\ last.other.kind = "Layer" /\ BatchSize = 1
    /\ Len(LayerOf(pre, "h").p1) = 1
    /\ LayerOf(contacts, "h").beta = <<3, 7>>
    /\ LayerOf(contacts, "h").p1 = LayerOf(pre, "h").p1 \o last.other.batch.p1
    /\ LayerOf(contacts, "h").layer = LayerOf(pre, "h").layer \o last.other.batch.layer

====
